---------------------------- MODULE Spec2Model ----------------------------
(***************************************************************************)
(* A model of ITCHParser (src/parser.py): the frame loop of                *)
(* parse_file_to_hdf5, the message decoder _parse_message with its         *)
(* per-type routines, _categorize_message, and the chunk flush             *)
(* _save_chunk_to_store.                                                   *)
(*                                                                         *)
(* Conventions.  A byte is an integer 0..255 and bytes objects are         *)
(* sequences of bytes.  Python indexes from 0, TLA+ from 1: At and Slice   *)
(* take Python indexes.  A character (chr(b)) is represented by its code   *)
(* point, a str by the sequence of its code points.  A dict with fixed     *)
(* keys is a record; a list is a sequence.  An exception raised by a       *)
(* per-type routine is the value Raised; None is the value None.           *)
(***************************************************************************)
EXTENDS Integers, Sequences, FiniteSets, TLC

VARIABLES
    file,           \* the bytes of self.itch_file_path
    limit,          \* argument limit (0 stands for None: both are falsy)
    chunksize,      \* argument chunksize
    pos,            \* the cursor of the open file f
    message_data,   \* the nine buffers
    message_count,
    chunk_count,
    message,        \* the payload read last (local `message`)
    parsed,         \* the result of _parse_message on it (local `parsed`)
    store,          \* the HDF5 store: key <<bucket, chunk_num>> -> records
    flushes,        \* the calls of _save_chunk_to_store made so far
    sinkFailures,   \* how many of them raised
    report,         \* the two closing log lines, <<>> until they are written
    pc              \* "loop", "final" (after the loop), "done", "raised"

vars == <<file, limit, chunksize, pos, message_data, message_count,
          chunk_count, message, parsed, store, flushes, sinkFailures,
          report, pc>>

-----------------------------------------------------------------------------
(* Bounds of the model *)

MaxFrames == 3
MaxChunk == 3
MaxLimit == 2
MaxSinkFailures == 1

-----------------------------------------------------------------------------
(* Bytes, slices and the field decoders *)

Min(a, b) == IF a < b THEN a ELSE b

\* message[a:b] of Python, for 0 <= a <= b
Slice(m, a, b) == SubSeq(m, a + 1, Min(b, Len(m)))

\* message[i] raises IndexError unless i < len(message)
IndexOK(m, i) == i < Len(m)
At(m, i) == m[i + 1]

\* int.from_bytes(b, 'big'); also the value struct.unpack('>H' / '>I' / '>Q')
\* returns for a window of the right size
RECURSIVE FromBytesBig(_)
FromBytesBig(b) ==
    IF b = <<>> THEN 0
    ELSE FromBytesBig(SubSeq(b, 1, Len(b) - 1)) * 256 + b[Len(b)]

\* struct.unpack(fmt, window) raises struct.error unless the window has
\* exactly the size of the format: 2 for '>H', 4 for '>I', 8 for '>Q'
UnpackOK(m, a, b) == Len(Slice(m, a, b)) = b - a
Unpack(m, a, b) == FromBytesBig(Slice(m, a, b))

\* bytes.strip(b'\x00'): NUL bytes are removed at both ends
RECURSIVE LStrip(_)
LStrip(b) == IF b # <<>> /\ b[1] = 0 THEN LStrip(Tail(b)) ELSE b
RECURSIVE RStrip(_)
RStrip(b) ==
    IF b # <<>> /\ b[Len(b)] = 0 THEN RStrip(SubSeq(b, 1, Len(b) - 1)) ELSE b
Strip(b) == LStrip(RStrip(b))

\* bytes.decode('ascii', errors='ignore'): bytes above 127 are dropped
IsAscii(c) == c < 128
DecodeAscii(b) == SelectSeq(b, IsAscii)

\* message[a:b].strip(b'\x00').decode('ascii', errors='ignore')
Text(m, a, b) == DecodeAscii(Strip(Slice(m, a, b)))

\* struct.unpack('>I', message[a:b])[0] / 10000.0, kept as the quotient
Price(m, a, b) == [num |-> Unpack(m, a, b), den |-> 10000]

-----------------------------------------------------------------------------
(* The message decoder *)

\* ord() of the type tags and codes the program names
Ord == [S |-> 83, R |-> 82, H |-> 72, A |-> 65, F |-> 70, E |-> 69, P |-> 80,
        X |-> 88, D |-> 68, U |-> 85, C |-> 67, B |-> 66, Y |-> 89, O |-> 79]

None == [none |-> TRUE]
Raised == [exception |-> TRUE]

_parse_system_event(m, stock_locate, tracking_number, timestamp) ==
    IF IndexOK(m, 11)
    THEN [message_type |-> Ord.S, stock_locate |-> stock_locate,
          tracking_number |-> tracking_number, timestamp |-> timestamp,
          event_code |-> At(m, 11)]
    ELSE Raised

_parse_stock_directory(m, stock_locate, tracking_number, timestamp) ==
    IF IndexOK(m, 19) /\ IndexOK(m, 20) /\ UnpackOK(m, 40, 44)
    THEN [message_type |-> Ord.R, stock_locate |-> stock_locate,
          tracking_number |-> tracking_number, timestamp |-> timestamp,
          stock |-> Text(m, 11, 19),
          market_category |-> At(m, 19),
          financial_status |-> At(m, 20),
          round_lot_size |-> Unpack(m, 40, 44)]
    ELSE Raised

_parse_add_order_no_mpid(m, stock_locate, tracking_number, timestamp) ==
    IF UnpackOK(m, 19, 27) /\ IndexOK(m, 11) /\ UnpackOK(m, 27, 31)
       /\ UnpackOK(m, 31, 35)
    THEN [message_type |-> Ord.A, stock_locate |-> stock_locate,
          tracking_number |-> tracking_number, timestamp |-> timestamp,
          order_ref |-> Unpack(m, 19, 27),
          buy_sell |-> IF At(m, 11) = Ord.B THEN Ord.B ELSE Ord.S,
          shares |-> Unpack(m, 27, 31),
          stock |-> Text(m, 12, 20),
          price |-> Price(m, 31, 35)]
    ELSE Raised

_parse_add_order_with_mpid(m, stock_locate, tracking_number, timestamp) ==
    IF UnpackOK(m, 19, 27) /\ IndexOK(m, 11) /\ UnpackOK(m, 27, 31)
       /\ UnpackOK(m, 31, 35)
    THEN [message_type |-> Ord.F, stock_locate |-> stock_locate,
          tracking_number |-> tracking_number, timestamp |-> timestamp,
          order_ref |-> Unpack(m, 19, 27),
          buy_sell |-> IF At(m, 11) = Ord.B THEN Ord.B ELSE Ord.S,
          shares |-> Unpack(m, 27, 31),
          stock |-> Text(m, 12, 20),
          price |-> Price(m, 31, 35),
          mpid |-> Text(m, 35, 39)]
    ELSE Raised

_parse_order_executed(m, stock_locate, tracking_number, timestamp) ==
    IF UnpackOK(m, 11, 19) /\ UnpackOK(m, 19, 23) /\ UnpackOK(m, 23, 31)
    THEN [message_type |-> Ord.E, stock_locate |-> stock_locate,
          tracking_number |-> tracking_number, timestamp |-> timestamp,
          order_ref |-> Unpack(m, 11, 19),
          executed_shares |-> Unpack(m, 19, 23),
          match_number |-> Unpack(m, 23, 31)]
    ELSE Raised

_parse_trade(m, stock_locate, tracking_number, timestamp) ==
    IF UnpackOK(m, 19, 27) /\ UnpackOK(m, 27, 35) /\ UnpackOK(m, 35, 39)
       /\ UnpackOK(m, 39, 47)
    THEN [message_type |-> Ord.P, stock_locate |-> stock_locate,
          tracking_number |-> tracking_number, timestamp |-> timestamp,
          order_ref |-> Unpack(m, 19, 27),
          shares |-> Unpack(m, 27, 35),
          stock |-> Text(m, 11, 19),
          price |-> Price(m, 35, 39),
          match_number |-> Unpack(m, 39, 47)]
    ELSE Raised

_parse_order_cancel(m, stock_locate, tracking_number, timestamp) ==
    IF UnpackOK(m, 11, 19) /\ UnpackOK(m, 19, 23)
    THEN [message_type |-> Ord.X, stock_locate |-> stock_locate,
          tracking_number |-> tracking_number, timestamp |-> timestamp,
          order_ref |-> Unpack(m, 11, 19),
          canceled_shares |-> Unpack(m, 19, 23)]
    ELSE Raised

_parse_order_delete(m, stock_locate, tracking_number, timestamp) ==
    IF UnpackOK(m, 11, 19)
    THEN [message_type |-> Ord.D, stock_locate |-> stock_locate,
          tracking_number |-> tracking_number, timestamp |-> timestamp,
          order_ref |-> Unpack(m, 11, 19)]
    ELSE Raised

_parse_order_replace(m, stock_locate, tracking_number, timestamp) ==
    IF UnpackOK(m, 11, 19) /\ UnpackOK(m, 19, 27) /\ UnpackOK(m, 27, 31)
       /\ UnpackOK(m, 31, 35)
    THEN [message_type |-> Ord.U, stock_locate |-> stock_locate,
          tracking_number |-> tracking_number, timestamp |-> timestamp,
          orig_order_ref |-> Unpack(m, 11, 19),
          new_order_ref |-> Unpack(m, 19, 27),
          shares |-> Unpack(m, 27, 31),
          price |-> Price(m, 31, 35)]
    ELSE Raised

\* the local `reserved` is read (message[20]) and not returned
_parse_stock_trading_action(m, stock_locate, tracking_number, timestamp) ==
    IF IndexOK(m, 19) /\ IndexOK(m, 20)
    THEN [message_type |-> Ord.H, stock_locate |-> stock_locate,
          tracking_number |-> tracking_number, timestamp |-> timestamp,
          stock |-> Text(m, 11, 19),
          trading_state |-> At(m, 19),
          reason |-> Text(m, 21, 25)]
    ELSE Raised

\* the keys of the dict `parsers`
ParserTypes == {Ord.S, Ord.R, Ord.A, Ord.F, Ord.E, Ord.P, Ord.X, Ord.D,
                Ord.U, Ord.H}

\* parsers.get(message_type) is not None
_get_parser_method(message_type) == message_type \in ParserTypes

\* parser_method(message, stock_locate, tracking_number, timestamp)
CallParser(t, m, sl, tn, ts) ==
    CASE t = Ord.S -> _parse_system_event(m, sl, tn, ts)
      [] t = Ord.R -> _parse_stock_directory(m, sl, tn, ts)
      [] t = Ord.A -> _parse_add_order_no_mpid(m, sl, tn, ts)
      [] t = Ord.F -> _parse_add_order_with_mpid(m, sl, tn, ts)
      [] t = Ord.E -> _parse_order_executed(m, sl, tn, ts)
      [] t = Ord.P -> _parse_trade(m, sl, tn, ts)
      [] t = Ord.X -> _parse_order_cancel(m, sl, tn, ts)
      [] t = Ord.D -> _parse_order_delete(m, sl, tn, ts)
      [] t = Ord.U -> _parse_order_replace(m, sl, tn, ts)
      [] t = Ord.H -> _parse_stock_trading_action(m, sl, tn, ts)

\* the generic record of a type with no parser method
GenericRecord(m, sl, tn, ts) ==
    [message_type |-> At(m, 0), stock_locate |-> sl, tracking_number |-> tn,
     timestamp |-> ts, raw_length |-> Len(m)]

_parse_message(m) ==
    IF Len(m) < 1 THEN None
    ELSE IF ~(UnpackOK(m, 1, 3) /\ UnpackOK(m, 3, 5)) THEN None
    ELSE LET message_type == At(m, 0)
             stock_locate == Unpack(m, 1, 3)
             tracking_number == Unpack(m, 3, 5)
             timestamp == FromBytesBig(Slice(m, 5, 11))
             result == IF _get_parser_method(message_type)
                       THEN CallParser(message_type, m, stock_locate,
                                       tracking_number, timestamp)
                       ELSE GenericRecord(m, stock_locate, tracking_number,
                                          timestamp)
         IN  IF result = Raised THEN None ELSE result

-----------------------------------------------------------------------------
(* The buffers and the categorizer *)

\* the keys of _initialize_message_buffers, in the dict's order
BucketOrder == <<"system_events", "stock_directory", "trading_actions",
                 "add_orders", "trades", "order_executions", "order_cancels",
                 "order_deletes", "order_replaces">>
Buckets == {BucketOrder[i] : i \in 1..Len(BucketOrder)}

_initialize_message_buffers == [b \in Buckets |-> <<>>]

_clear_message_buffers(messages_data) == [b \in DOMAIN messages_data |-> <<>>]

\* the bucket _categorize_message appends to, "" when it appends to none
BucketOf(msg_type) ==
    CASE msg_type = Ord.S -> "system_events"
      [] msg_type = Ord.R -> "stock_directory"
      [] msg_type = Ord.H -> "trading_actions"
      [] msg_type \in {Ord.A, Ord.F} -> "add_orders"
      [] msg_type = Ord.P -> "trades"
      [] msg_type \in {Ord.E, Ord.C} -> "order_executions"
      [] msg_type = Ord.X -> "order_cancels"
      [] msg_type = Ord.D -> "order_deletes"
      [] msg_type = Ord.U -> "order_replaces"
      [] OTHER -> ""

_categorize_message(rec, messages_data) ==
    IF BucketOf(rec.message_type) = "" THEN messages_data
    ELSE [messages_data EXCEPT ![BucketOf(rec.message_type)] = Append(@, rec)]

-----------------------------------------------------------------------------
(* The sink *)

\* the key f'/{data_type}/chunk_{chunk_num:04d}'
Key(data_type, chunk_num) == <<data_type, chunk_num>>

\* The buckets _save_chunk_to_store hands to store.put, in the dict's order,
\* when the put of bucket number failAt raises (failAt = 0: none raises).
Handed(md, failAt) ==
    {i \in 1..Len(BucketOrder) :
        md[BucketOrder[i]] # <<>> /\ (failAt = 0 \/ i <= failAt)}

\* The store after _save_chunk_to_store(store, message_data, chunk_num):
\* the puts before the failing one are done, each store.put(key, df)
\* replacing what the store held under key.
_save_chunk_to_store(st, md, chunk_num, failAt) ==
    LET done == {i \in Handed(md, failAt) : i # failAt}
        keys == {Key(BucketOrder[i], chunk_num) : i \in done}
    IN  [k \in DOMAIN st \cup keys |->
            IF k \in keys THEN md[k[1]] ELSE st[k]]

\* What a call of _save_chunk_to_store is recorded as in `flushes`
FlushRecord(md, chunk_num, failAt) ==
    [chunk_num |-> chunk_num,
     handed |-> [b \in Buckets |->
                    IF \E i \in Handed(md, failAt) : BucketOrder[i] = b
                    THEN md[b] ELSE <<>>],
     raised |-> failAt # 0]

\* The puts that may raise: none, or the put of one non-empty bucket
FailChoices(md) ==
    {0} \cup {i \in 1..Len(BucketOrder) : md[BucketOrder[i]] # <<>>}

-----------------------------------------------------------------------------
(* Input files *)

Zeros(n) == [i \in 1..n |-> 0]

\* the 11 bytes every payload starts with: tag, stock_locate = 1,
\* tracking_number = tn, timestamp = 3
Hdr(tag, tn) == <<tag, 0, 1, 0, tn>> \o Zeros(5) \o <<3>>

MsgS == Hdr(Ord.S, 0) \o <<Ord.O>>
MsgD == Hdr(Ord.D, 0) \o Zeros(7) \o <<9>>
MsgH == Hdr(Ord.H, 0) \o <<65, 65, 80, 76, 32, 32, 0, 0>> \o <<72, 32>>
           \o <<76, 85, 68, 80>>
MsgC == Hdr(Ord.C, 0)
MsgY == Hdr(Ord.Y, 0)

\* The payloads the frames of a file are drawn from: well-formed ones, an
\* 'S' payload one byte short, an 'H' payload two bytes short, a payload of
\* an unmapped type ('Y'), one of type 'C', and the empty payload.
Corpus == <<MsgS, SubSeq(MsgS, 1, 11), MsgD, SubSeq(MsgH, 1, 23), MsgC, MsgY,
            <<>>>>

\* What may follow the last whole frame: nothing, one byte of a length
\* prefix, a prefix declaring 12 bytes followed by none, or by 11 of them.
Tails == {<<>>, <<0>>, <<0, 12>>, <<0, 12>> \o SubSeq(MsgS, 1, 11)}

HeaderLen == 44

\* [2-byte big-endian length][payload]
Frame(payload) == <<Len(payload) \div 256, Len(payload) % 256>> \o payload

RECURSIVE Frames(_)
Frames(payloads) ==
    IF payloads = <<>> THEN <<>>
    ELSE Frame(Head(payloads)) \o Frames(Tail(payloads))

BuildFile(payloads, tail) == Zeros(HeaderLen) \o Frames(payloads) \o tail

PayloadSeqs ==
    UNION {[1..n -> {Corpus[i] : i \in 1..Len(Corpus)}] : n \in 0..MaxFrames}

-----------------------------------------------------------------------------
(* parse_file_to_hdf5 *)

\* f.read(n) at cursor p
FRead(p, n) == SubSeq(file, p + 1, Min(p + n, Len(file)))

Init ==
    /\ \E ps \in PayloadSeqs, tail \in Tails : file = BuildFile(ps, tail)
    /\ limit \in 0..MaxLimit
    /\ chunksize \in 1..MaxChunk
    /\ pos = Len(FRead(0, HeaderLen))
    /\ message_data = _initialize_message_buffers
    /\ message_count = 0
    /\ chunk_count = 0
    /\ message = <<>>
    /\ parsed = None
    /\ store = <<>>
    /\ flushes = <<>>
    /\ sinkFailures = 0
    /\ report = <<>>
    /\ pc = "loop"

length_bytes == FRead(pos, 2)
message_length == FromBytesBig(length_bytes)
NextMessage == FRead(pos + 2, message_length)

\* a limit test that lets one message more through
LimitHit_late == limit # 0 /\ message_count > limit

\* `if limit and message_count >= limit: break`
LimitHit == limit # 0 /\ message_count >= limit

\* `if not length_bytes or len(length_bytes) < 2: break`
PrefixMissing == length_bytes = <<>> \/ Len(length_bytes) < 2

\* `if not message or len(message) < message_length: break`
MessageIncomplete == NextMessage = <<>> \/ Len(NextMessage) < message_length

LimitReached ==
    /\ pc = "loop"
    /\ LimitHit
    /\ pc' = "final"
    /\ UNCHANGED <<file, limit, chunksize, pos, message_data, message_count,
                   chunk_count, message, parsed, store, flushes,
                   sinkFailures, report>>

\* a loop that goes round again where the prefix is missing
EndOfFile_continue ==
    /\ pc = "loop"
    /\ ~LimitHit
    /\ PrefixMissing
    /\ pos' = pos + Len(length_bytes)
    /\ UNCHANGED <<file, limit, chunksize, message_data, message_count,
                   chunk_count, message, parsed, store, flushes,
                   sinkFailures, report, pc>>

EndOfFile ==
    /\ pc = "loop"
    /\ ~LimitHit
    /\ PrefixMissing
    /\ pos' = pos + Len(length_bytes)
    /\ pc' = "final"
    /\ UNCHANGED <<file, limit, chunksize, message_data, message_count,
                   chunk_count, message, parsed, store, flushes,
                   sinkFailures, report>>

IncompleteMessage ==
    /\ pc = "loop"
    /\ ~LimitHit
    /\ ~PrefixMissing
    /\ MessageIncomplete
    /\ pos' = pos + 2 + Len(NextMessage)
    /\ message' = NextMessage
    /\ pc' = "final"
    /\ UNCHANGED <<file, limit, chunksize, message_data, message_count,
                   chunk_count, parsed, store, flushes, sinkFailures, report>>

\* the buffers after lines 121-123
Categorized(md, p) == IF p # None THEN _categorize_message(p, md) ELSE md

\* a count that advances only when a record was made
NextCount_onlyParsed(count, p) == IF p = None THEN count ELSE count + 1

\* `message_count += 1` (line 125) is reached whatever `parsed` is
NextCount(count, p) == count + 1

\* a boundary test taken on the count before the increment
AtChunkBoundary_early(count, size) == (count - 1) % size = 0

\* `if message_count % chunksize == 0`, on the incremented count
AtChunkBoundary(count, size) == count % size = 0

\* the part of the state an iteration works on
Cur == [message_data |-> message_data, message_count |-> message_count,
        chunk_count |-> chunk_count, store |-> store, flushes |-> flushes,
        sinkFailures |-> sinkFailures]

\* The puts that may raise in the iteration that processes payload m from s
FailOptions(s, m) ==
    LET p == _parse_message(m)
        md == Categorized(s.message_data, p)
    IN  IF AtChunkBoundary(NextCount(s.message_count, p), chunksize)
        THEN {f \in FailChoices(md) :
                 f # 0 => s.sinkFailures < MaxSinkFailures}
        ELSE {0}

\* Lines 120-136 on payload m from s.  At a chunk boundary the chunk is
\* saved; when a put raises (failAt # 0), `except Exception` logs it and the
\* loop continues, with chunk_count and the buffers as they were.
AfterMessage(s, m, failAt) ==
    LET p == _parse_message(m)
        md == Categorized(s.message_data, p)
        count == NextCount(s.message_count, p)
    IN  IF ~AtChunkBoundary(count, chunksize)
        THEN [s EXCEPT !.message_data = md, !.message_count = count]
        ELSE [message_data |->
                 IF failAt = 0 THEN _clear_message_buffers(md) ELSE md,
              message_count |-> count,
              chunk_count |->
                 IF failAt = 0 THEN s.chunk_count + 1 ELSE s.chunk_count,
              store |-> _save_chunk_to_store(s.store, md, s.chunk_count,
                                             failAt),
              flushes |-> Append(s.flushes,
                                 FlushRecord(md, s.chunk_count, failAt)),
              sinkFailures |->
                 IF failAt = 0 THEN s.sinkFailures ELSE s.sinkFailures + 1]

\* An iteration that reads a whole message: lines 104-146
ProcessMessage ==
    /\ pc = "loop"
    /\ ~LimitHit
    /\ ~PrefixMissing
    /\ ~MessageIncomplete
    /\ pos' = pos + 2 + Len(NextMessage)
    /\ message' = NextMessage
    /\ parsed' = _parse_message(NextMessage)
    /\ \E failAt \in FailOptions(Cur, NextMessage) :
         LET n == AfterMessage(Cur, NextMessage, failAt)
         IN  /\ message_data' = n.message_data
             /\ message_count' = n.message_count
             /\ chunk_count' = n.chunk_count
             /\ store' = n.store
             /\ flushes' = n.flushes
             /\ sinkFailures' = n.sinkFailures
    /\ UNCHANGED <<file, limit, chunksize, report, pc>>

\* `if message_count % chunksize != 0` after the loop
RemainderPending == message_count % chunksize # 0

\* the count the closing log line gives: 'Created {chunk_count + 1} chunk(s)'
ReportedChunks == chunk_count + 1

\* After the loop: lines 148-155.  A put that raises here reaches the caller.
Finish ==
    /\ pc = "final"
    /\ IF RemainderPending
       THEN \E failAt \in FailChoices(message_data) :
              /\ failAt # 0 => sinkFailures < MaxSinkFailures
              /\ store' = _save_chunk_to_store(store, message_data,
                                               chunk_count, failAt)
              /\ flushes' = Append(flushes, FlushRecord(message_data,
                                                        chunk_count, failAt))
              /\ IF failAt = 0
                 THEN /\ report' = <<message_count, ReportedChunks>>
                      /\ pc' = "done"
                      /\ UNCHANGED sinkFailures
                 ELSE /\ sinkFailures' = sinkFailures + 1
                      /\ pc' = "raised"
                      /\ UNCHANGED report
       ELSE /\ report' = <<message_count, ReportedChunks>>
            /\ pc' = "done"
            /\ UNCHANGED <<store, flushes, sinkFailures>>
    /\ UNCHANGED <<file, limit, chunksize, pos, message_data, message_count,
                   chunk_count, message, parsed>>

Next == LimitReached \/ EndOfFile \/ IncompleteMessage \/ ProcessMessage
           \/ Finish

Spec == Init /\ [][Next]_vars

\* What an iteration that reads a whole message does to the cursor and to the
\* control: the projection of ProcessMessage on <<pos, pc>>
ReadOn ==
    /\ pc = "loop"
    /\ ~LimitHit
    /\ ~PrefixMissing
    /\ ~MessageIncomplete
    /\ pos' = pos + 2 + Len(NextMessage)
    /\ pc' = pc

\* parse_file_to_hdf5 is one call running on one thread: while a step of it
\* can be taken, it is taken.  For the iteration that reads a whole message
\* the condition is stated on the cursor, which every such iteration moves.
FairSpec ==
    /\ Spec
    /\ WF_vars(LimitReached \/ EndOfFile \/ IncompleteMessage \/ Finish)
    /\ WF_<<pos, pc>>(ReadOn)

-----------------------------------------------------------------------------
(* The limited run over a longer file: limit = 3, ten messages *)

ScenarioFrames == 10
ScenarioLimit == 3

\* the chunk sizes of the scenario: below, at and above the limit
ScenarioChunks == 1..(MaxChunk + 2)

\* ten whole messages; the ones the limited run gets to see vary in type
ScenarioSeqs ==
    {[i \in 1..ScenarioFrames |-> IF i <= ScenarioLimit THEN h[i] ELSE MsgS] :
        h \in [1..ScenarioLimit -> {MsgS, MsgD, MsgY}]}

ScenarioTails == {<<>>, <<0, 12>>}

\* the state parse_file_to_hdf5 starts its loop in, lines 83-97
Started ==
    /\ pos = Len(FRead(0, HeaderLen))
    /\ message_data = _initialize_message_buffers
    /\ message_count = 0
    /\ chunk_count = 0
    /\ message = <<>>
    /\ parsed = None
    /\ store = <<>>
    /\ flushes = <<>>
    /\ sinkFailures = 0
    /\ report = <<>>
    /\ pc = "loop"

InitScenario ==
    /\ \E ps \in ScenarioSeqs, tail \in ScenarioTails :
          file = BuildFile(ps, tail)
    /\ limit \in {0, ScenarioLimit}
    /\ chunksize \in ScenarioChunks
    /\ Started

SpecScenario == InitScenario /\ [][Next]_vars

-----------------------------------------------------------------------------
(* _parse_message on single payloads *)

\* the bytes the text windows are filled with: NUL, space, 'A', and a byte
\* that is not ASCII
TextBytes == {0, 32, Ord.A, 200}

ReasonLen == 4

\* 'H' payloads: the stock window 'A', NUL, 'A', then NULs; every filling of
\* the reason window
DecodeInputs ==
    {Hdr(Ord.H, 0) \o <<Ord.A, 0, Ord.A, 0, 0, 0, 0, 0>> \o <<Ord.H, 32>> \o r :
        r \in [1..ReasonLen -> TextBytes]}

InitDecode ==
    /\ message \in DecodeInputs
    /\ file = BuildFile(<<message>>, <<>>)
    /\ limit = 0
    /\ chunksize = 1
    /\ pos = HeaderLen + 2 + Len(message)
    /\ message_data = _initialize_message_buffers
    /\ message_count = 0
    /\ chunk_count = 0
    /\ parsed = None
    /\ store = <<>>
    /\ flushes = <<>>
    /\ sinkFailures = 0
    /\ report = <<>>
    /\ pc = "parse"

\* `parsed = self._parse_message(message)`, line 121
Decode ==
    /\ pc = "parse"
    /\ parsed' = _parse_message(message)
    /\ pc' = "parsed"
    /\ UNCHANGED <<file, limit, chunksize, pos, message_data, message_count,
                   chunk_count, message, store, flushes, sinkFailures, report>>

NextDecode == Decode

SpecDecode == InitDecode /\ [][NextDecode]_vars

-----------------------------------------------------------------------------
(* The file as the format describes it, for stating the properties *)

\* the bytes after the preamble
Body == SubSeq(file, HeaderLen + 1, Len(file))

\* The payloads of the leading frames of b that are wholly in b
RECURSIVE WholeFrames(_)
WholeFrames(b) ==
    IF Len(b) < 2 \/ Len(b) < 2 + b[1] * 256 + b[2] THEN <<>>
    ELSE <<SubSeq(b, 3, 2 + b[1] * 256 + b[2])>>
            \o WholeFrames(SubSeq(b, 3 + b[1] * 256 + b[2], Len(b)))

FileFrames == WholeFrames(Body)

\* the bytes that follow the last whole frame
Rest == SubSeq(Body, Len(Frames(FileFrames)) + 1, Len(Body))

\* the file ends in a frame whose declared length exceeds the bytes left
LastFrameTruncated == Len(Rest) >= 2

\* the file is M frames, each a whole message of at least the type tag
MessagesOnly ==
    /\ Rest = <<>>
    /\ \A i \in 1..Len(FileFrames) : FileFrames[i] # <<>>

CeilDiv(a, b) == (a + b - 1) \div b

RECURSIVE SumLen(_, _)
SumLen(fl, b) ==
    IF fl = <<>> THEN 0 ELSE Len(Head(fl).handed[b]) + SumLen(Tail(fl), b)

\* the frames processed so far are the first message_count frames of the file
ProcessedFrames == SubSeq(FileFrames, 1, message_count)

\* the number of processed messages _categorize_message put into bucket b
CategorizedCount(b) ==
    Cardinality({i \in 1..Len(ProcessedFrames) :
        /\ _parse_message(ProcessedFrames[i]) # None
        /\ BucketOf(_parse_message(ProcessedFrames[i]).message_type) = b})

Finished == pc \in {"done", "raised"}

-----------------------------------------------------------------------------
(* C1 *)

\* C1: for a file of M whole messages (any mix of types, decodable or not)
\* read with no limit, the number of calls of the chunk save made by the end
\* of the run, in-loop and final, is ceil(M / chunksize).
C1_FlushCount ==
    (Finished /\ limit = 0 /\ MessagesOnly)
        => Len(flushes) = CeilDiv(Len(FileFrames), chunksize)

C1_Witness ==
    /\ pc = "done" /\ limit = 0 /\ MessagesOnly
    /\ Len(FileFrames) = 3 /\ chunksize = 2 /\ Len(flushes) = 2

-----------------------------------------------------------------------------
(* C2 *)

\* C2: when a run completes, for each bucket the records handed to the sink,
\* summed over all flushes, number exactly the messages categorized into
\* that bucket: none is lost, none is handed twice.
C2_NoLossNoDuplicate ==
    pc = "done" => \A b \in Buckets : SumLen(flushes, b) = CategorizedCount(b)

-----------------------------------------------------------------------------
(* C3 *)

\* C3: a flush that raises is fatal: it is the last thing the run does, and
\* the run ends with the exception at the caller.
C3_SinkFailureFatal ==
    \A i \in 1..Len(flushes) :
        flushes[i].raised => (i = Len(flushes) /\ pc = "raised")

-----------------------------------------------------------------------------
(* C4 *)

\* the K of the claim: the truncated frame follows K - 1 whole messages
TruncatedAtK(K) ==
    /\ LastFrameTruncated
    /\ K = Len(FileFrames) + 1
    /\ \A i \in 1..Len(FileFrames) : FileFrames[i] # <<>>
    /\ limit = 0 \/ limit >= K

\* the record a per-type routine made of the i-th message, if it made one,
\* was handed to the sink in some flush
HandedToSink(i) ==
    LET rec == _parse_message(FileFrames[i])
    IN  (rec # None /\ _get_parser_method(rec.message_type))
           => \E j \in 1..Len(flushes) :
                 \E k \in 1..Len(flushes[j].handed[BucketOf(rec.message_type)]) :
                    flushes[j].handed[BucketOf(rec.message_type)][k] = rec

\* C4: when the K-th frame is truncated, a run that ends without an
\* exception has counted exactly K - 1 messages and has handed the record of
\* each of them to the sink.
C4_Truncation ==
    \A K \in 1..(MaxFrames + 1) :
        (pc = "done" /\ TruncatedAtK(K))
            => /\ message_count = K - 1
               /\ \A i \in 1..(K - 1) : HandedToSink(i)

-----------------------------------------------------------------------------
(* C5 *)

\* the frame the next iteration will read whole
AboutToProcess ==
    pc = "loop" /\ ~LimitHit /\ ~PrefixMissing /\ ~MessageIncomplete

\* a payload of a type that has a per-type routine, which fails on it
Malformed(m) ==
    /\ m # <<>>
    /\ _get_parser_method(At(m, 0))
    /\ _parse_message(m) = None

\* all the iteration can make of payload m from the current state
Outcomes(m) == {AfterMessage(Cur, m, f) : f \in FailOptions(Cur, m)}

\* C5: an iteration on a payload of a known type that fails to decode adds
\* no record, advances the count by one, and leaves the buffers, the counts
\* and the store exactly as an iteration on a message of an unmapped type
\* would, so that every later frame lands in the same chunk at the same
\* place.
C5_MalformedIsolation ==
    (AboutToProcess /\ Malformed(NextMessage))
        => /\ Outcomes(NextMessage) = Outcomes(MsgY)
           /\ \A o \in Outcomes(NextMessage) :
                /\ o.message_count = message_count + 1
                /\ \A b \in Buckets :
                      \/ o.message_data[b] = message_data[b]
                      \/ o.message_data[b] = <<>>

\* a run that dropped a malformed message and stored a later one
C5_Witness ==
    /\ pc = "done"
    /\ \E i \in 1..message_count : \E j \in (i + 1)..message_count :
         /\ Malformed(FileFrames[i])
         /\ _parse_message(FileFrames[j]) # None
         /\ \E k \in DOMAIN store :
               \E n \in 1..Len(store[k]) :
                  store[k][n] = _parse_message(FileFrames[j])

-----------------------------------------------------------------------------
(* C6 *)

\* the payload length the decode table's offsets ask for, per type
TableLen(t) ==
    CASE t = Ord.S -> 12 [] t = Ord.R -> 44 [] t = Ord.H -> 25
      [] t = Ord.A -> 35 [] t = Ord.F -> 39 [] t = Ord.E -> 31
      [] t = Ord.P -> 47 [] t = Ord.X -> 23 [] t = Ord.D -> 19
      [] t = Ord.U -> 35

\* C6: a payload of a known type shorter than its table length yields no
\* record.
C6_ShortPayloadRejected ==
    (message # <<>> /\ _get_parser_method(At(message, 0))
        /\ Len(message) < TableLen(At(message, 0)))
        => _parse_message(message) = None

-----------------------------------------------------------------------------
(* C7 *)

\* a record made by the generic fallback
IsGeneric(rec) == "raw_length" \in DOMAIN rec

\* C7: no bucket ever holds a generic record.
C7_GenericNeverBucketed ==
    \A b \in Buckets : \A i \in 1..Len(message_data[b]) :
        ~IsGeneric(message_data[b][i])

-----------------------------------------------------------------------------
(* C8 *)

\* C8: once the loop has ended, either the limit was reached or every frame
\* wholly present in the file, of any declared length, was counted.
C8_StopsOnlyAtEnd ==
    pc # "loop" => (LimitHit \/ message_count = Len(FileFrames))

-----------------------------------------------------------------------------
(* C9 *)

\* C9: the number of chunks reported equals the number of flushes made.
C9_ReportedChunks == pc = "done" => report[2] = Len(flushes)

-----------------------------------------------------------------------------
(* C10 *)

\* the frames of the file that carry a message
MessageFrames == SelectSeq(FileFrames, LAMBDA m : m # <<>>)

\* C10: under a positive limit the count never exceeds the limit, and a run
\* over a file of whole frames ends having processed min(limit, M) messages
\* (M taken as the number of frames that carry at least a type tag).
C10_LimitExact ==
    limit > 0 =>
        /\ message_count <= limit
        /\ (pc = "done" /\ Rest = <<>>)
              => message_count = Min(limit, Len(MessageFrames))

-----------------------------------------------------------------------------
(* C11 *)

\* the run of the scenario: limit = 3 over a file of ten whole messages
LimitedRun ==
    /\ limit = ScenarioLimit
    /\ MessagesOnly
    /\ Len(FileFrames) = ScenarioFrames

\* the only flush of the run is the one made after the loop
OneFlushAtStreamEnd ==
    /\ pc \in {"loop", "final"} => flushes = <<>>
    /\ Finished => Len(flushes) = 1

\* C11 as stated: the limited run flushes exactly once, after the loop,
\* whatever the chunk size.
C11_OnceWhateverChunksize == LimitedRun => OneFlushAtStreamEnd

\* C11: the limited run makes ceil(3 / chunksize) flushes; it flushes exactly
\* once, after the loop, when chunksize is larger than the limit.
C11_FlushesOfLimitedRun ==
    LimitedRun =>
        /\ Finished => Len(flushes) = CeilDiv(ScenarioLimit, chunksize)
        /\ chunksize > ScenarioLimit => OneFlushAtStreamEnd

C11_Witness ==
    /\ LimitedRun /\ pc = "done"
    /\ chunksize > ScenarioLimit
    /\ Len(flushes) = 1
    /\ message_count = ScenarioLimit

-----------------------------------------------------------------------------
(* C12 *)

\* the run ended with the exception of the put of the flush after the loop
FinalFlushRaised ==
    /\ pc = "raised"
    /\ RemainderPending
    /\ flushes # <<>> /\ flushes[Len(flushes)].raised

\* the run ended with the closing log lines (152-153) written
Reported == pc = "done" /\ report = <<message_count, ReportedChunks>>

\* C12 as stated: no run leaves parse_file_to_hdf5 without the final counts
\* report.
C12_NeverExitsWithoutReport == pc # "raised"

\* C12: every run terminates; it ends with the final counts report, or,
\* when the put of the flush after the loop raises, with that exception at
\* the caller.  Malformed messages and a truncated last frame change neither.
C12_Terminates == <>(Reported \/ FinalFlushRaised)

C12_Witness ==
    /\ Reported
    /\ LastFrameTruncated
    /\ \E i \in 1..Len(ProcessedFrames) :
          _parse_message(ProcessedFrames[i]) = None

-----------------------------------------------------------------------------
(* C13 *)

\* the characters of window [a, b) of m with the NULs at its end removed and
\* nothing else
TrailingNulTrimmed(m, a, b) == RStrip(Slice(m, a, b))

\* C13: a text field is its window without the trailing NUL padding; leading
\* NULs, bytes inside the window and trailing spaces are kept.  Stated for
\* the stock and reason of a trading action whose windows hold ASCII only.
C13_OnlyTrailingNulRemoved ==
    (/\ pc = "parsed"
     /\ parsed # None
     /\ parsed.message_type = Ord.H
     /\ \A i \in 1..Len(message) : IsAscii(message[i]))
        => /\ parsed.stock = TrailingNulTrimmed(message, 11, 19)
           /\ parsed.reason = TrailingNulTrimmed(message, 21, 25)

-----------------------------------------------------------------------------
(* C14 *)

\* C14: the flushes of a run, in the order they are made, carry chunk_num
\* 0, 1, 2, ...: the first carries 0, each later one the number after its
\* predecessor's, so no number is skipped and none is carried twice.
C14_ChunkNumSequence ==
    \A i \in 1..Len(flushes) : flushes[i].chunk_num = i - 1

-----------------------------------------------------------------------------
(* C15 *)

RECURSIVE TotalRecords(_, _)
\* the records md holds in the buckets named by bs
TotalRecords(md, bs) ==
    IF bs = <<>> THEN 0
    ELSE Len(md[Head(bs)]) + TotalRecords(md, Tail(bs))

\* the loop stands right after an iteration that reached a chunk boundary
AfterInLoopFlush ==
    /\ pc \in {"loop", "final"}
    /\ message_count > 0
    /\ AtChunkBoundary(message_count, chunksize)

\* C15: the nine buckets never hold more than chunksize records in all, no
\* flush hands the sink more than chunksize records, and after an in-loop
\* flush every bucket is empty.
C15_BufferBounded ==
    /\ TotalRecords(message_data, BucketOrder) <= chunksize
    /\ \A i \in 1..Len(flushes) :
          TotalRecords(flushes[i].handed, BucketOrder) <= chunksize
    /\ AfterInLoopFlush => message_data = _initialize_message_buffers

-----------------------------------------------------------------------------
(* C16 *)

RECURSIVE CategorizedSeq(_, _)
\* the records of the frames fr that go to bucket b, in the order of fr
CategorizedSeq(fr, b) ==
    IF fr = <<>> THEN <<>>
    ELSE LET p == _parse_message(Head(fr))
         IN  (IF p # None /\ BucketOf(p.message_type) = b THEN <<p>>
              ELSE <<>>) \o CategorizedSeq(Tail(fr), b)

RECURSIVE FlushedSeq(_, _)
\* the records handed to the sink for bucket b, flush after flush
FlushedSeq(fl, b) ==
    IF fl = <<>> THEN <<>>
    ELSE Head(fl).handed[b] \o FlushedSeq(Tail(fl), b)

\* the frames whose records the n-th flush is to carry (n from 1)
FramesOfChunk(n) ==
    SubSeq(ProcessedFrames, (n - 1) * chunksize + 1,
           Min(n * chunksize, message_count))

\* C16: when a run completes, for each bucket the flushed records, taken
\* flush after flush, are exactly the bucket's categorized messages in file
\* order; and the n-th flush carries the records of the n-th run of
\* chunksize frames, so all of its frames precede those of the next flush.
C16_OrderPreserved ==
    pc = "done" =>
        \A b \in Buckets :
            /\ FlushedSeq(flushes, b) = CategorizedSeq(ProcessedFrames, b)
            /\ \A n \in 1..Len(flushes) :
                  flushes[n].handed[b] = CategorizedSeq(FramesOfChunk(n), b)

=============================================================================
